---- MODULE Spec2Model ----
(***************************************************************************)
(* Plate text resolution of the license plate recognition pipeline:        *)
(*   utils/license_plate_processor.py  OCR correction and format checks    *)
(*   utils/vehicle_tracker.py          plate-to-vehicle assignment         *)
(*   utils/visualizer.py               one plate text per vehicle          *)
(*   main.py                           the per-frame loop and results map  *)
(*   utils/data_writer.py              the rows of the results file        *)
(*   utils/data_interpolator.py        gap filling, as the design states   *)
(* A Python str is a sequence of one-character strings.                    *)
(***************************************************************************)
EXTENDS Integers, Sequences, FiniteSets, TLC

VARIABLES
    fn,             \* the function applied to arg ("none" before the call)
    arg,            \* the inputs of a call of one function
    ret,            \* what the call returned
    pc,             \* where LicensePlateRecognition.run stands
    frame_nmr,      \* run's frame_nmr
    results,        \* self.results: frame_nmr -> car_id -> record
    track_ids,      \* process_frame's track_ids of the current frame
    license_plates, \* the detections process_frame has still to go through
    last,           \* what became of the detection handled last
    test_csv,       \* the rows of ./test.csv
    test_interpolated_csv,    \* the rows of ./test_interpolated.csv
    car_ids,        \* the car ids _process_license_plates has still to go through
    visualizer_license_plate, \* the Visualizer's self.license_plate
    selected        \* the car ids _select_best_plate was called for, in order

callVars == <<fn, arg, ret>>

\* what run writes and the Visualizer holds after the frame loop
postVars == <<test_csv, test_interpolated_csv, car_ids, visualizer_license_plate, selected>>

runVars == <<pc, frame_nmr, results, track_ids, license_plates, last, postVars>>

vars == <<fn, arg, ret, pc, frame_nmr, results, track_ids, license_plates, last,
          test_csv, test_interpolated_csv, car_ids, visualizer_license_plate, selected>>

\* Python's None: a value that equals no str, no tuple and no number
None == <<"None">>

\* run has not been called
RunIdle ==
    /\ pc = "idle"
    /\ frame_nmr = -1
    /\ results = <<>>
    /\ track_ids = <<>>
    /\ license_plates = <<>>
    /\ last = "none"
    /\ test_csv = {}
    /\ test_interpolated_csv = {}
    /\ car_ids = <<>>
    /\ visualizer_license_plate = <<>>
    /\ selected = <<>>

----------------------------------------------------------------------------
(* Characters and the str methods the code uses.                           *)

DigitChars == {"0", "1", "2", "3", "4", "5", "6", "7", "8", "9"}

LowerSeq == <<"a", "b", "c", "d", "e", "f", "g", "h", "i", "j", "k", "l", "m",
              "n", "o", "p", "q", "r", "s", "t", "u", "v", "w", "x", "y", "z">>

UpperSeq == <<"A", "B", "C", "D", "E", "F", "G", "H", "I", "J", "K", "L", "M",
              "N", "O", "P", "Q", "R", "S", "T", "U", "V", "W", "X", "Y", "Z">>

UpperChars == {UpperSeq[i] : i \in 1..Len(UpperSeq)}

LowerChars == {LowerSeq[i] : i \in 1..Len(LowerSeq)}

\* str.upper() of one character
CharUpper(c) ==
    IF c \in LowerChars
    THEN UpperSeq[CHOOSE i \in 1..Len(LowerSeq) : LowerSeq[i] = c]
    ELSE c

\* str.upper()
StrUpper(s) == [i \in 1..Len(s) |-> CharUpper(s[i])]

\* str.replace(" ", "")
StripSpaces(s) == SelectSeq(s, LAMBDA c : c # " ")

\* str.isdigit(): every character a digit, and at least one character
IsDigit(s) == Len(s) > 0 /\ \A i \in 1..Len(s) : s[i] \in DigitChars

\* str.isalnum(): letters and digits
IsAlpha_Alnum(s) ==
    Len(s) > 0 /\ \A i \in 1..Len(s) : s[i] \in UpperChars \cup LowerChars \cup DigitChars

\* str.isalpha(): every character a letter, and at least one character
IsAlpha(s) == Len(s) > 0 /\ \A i \in 1..Len(s) : s[i] \in UpperChars \cup LowerChars

Min(a, b) == IF a < b THEN a ELSE b

\* s[:n]
Prefix(s, n) == SubSeq(s, 1, Min(n, Len(s)))

\* s[n:]
Suffix(s, n) == SubSeq(s, n + 1, Len(s))

----------------------------------------------------------------------------
(* LicensePlateProcessor                                                   *)

dict_char_to_int ==
    "O" :> "0" @@ "I" :> "1" @@ "J" :> "3" @@ "A" :> "4" @@ "G" :> "6" @@ "S" :> "5"

ocr_alternatives ==
    "O" :> <<"D", "0", "O">> @@
    "I" :> <<"1", "I">> @@
    "l" :> <<"1", "l", "1">> @@
    "J" :> <<"3", "J">> @@
    "A" :> <<"4", "A">> @@
    "G" :> <<"6", "G">> @@
    "S" :> <<"5", "S">> @@
    "B" :> <<"8", "B">> @@
    "Z" :> <<"2", "Z">> @@
    "0" :> <<"D", "0", "O">> @@
    "1" :> <<"1", "I", "l">> @@
    "3" :> <<"3", "J">> @@
    "4" :> <<"4", "A">> @@
    "6" :> <<"6", "G">> @@
    "5" :> <<"5", "S">> @@
    "8" :> <<"8", "B">> @@
    "2" :> <<"2", "Z">> @@
    "D" :> <<"O", "D">> @@
    "T" :> <<"T", "1">> @@
    "N" :> <<"N">> @@
    "K" :> <<"K">> @@
    "R" :> <<"R">> @@
    "V" :> <<"V">>

\* the pattern ^\d{2}[A-Z]{1,3}\d{2,4}$
MinLetters == 1
MaxLetters == 3
MinTailDigits == 2
MaxTailDigits == 4

check_plate_format(plate) ==
    \E nl \in MinLetters..MaxLetters : \E nd \in MinTailDigits..MaxTailDigits :
        /\ Len(plate) = 2 + nl + nd
        /\ \A i \in 1..2 : plate[i] \in DigitChars
        /\ \A i \in 3..(2 + nl) : plate[i] \in UpperChars
        /\ \A i \in (3 + nl)..Len(plate) : plate[i] \in DigitChars

\* a lookup of the character as spelled: ocr_alternatives.get(char, [char.upper()])
Alternatives_NoUpper(char) ==
    IF char \in DOMAIN ocr_alternatives
    THEN ocr_alternatives[char]
    ELSE <<CharUpper(char)>>

\* ocr_alternatives.get(char.upper(), [char.upper()])
Alternatives(char) ==
    IF CharUpper(char) \in DOMAIN ocr_alternatives
    THEN ocr_alternatives[CharUpper(char)]
    ELSE <<CharUpper(char)>>

alternatives_per_char(raw_plate) == [i \in 1..Len(raw_plate) |-> Alternatives(raw_plate[i])]

\* the number of combinations of the positions after i
RECURSIVE CombinationsAfter(_, _)
CombinationsAfter(alts, i) ==
    IF i >= Len(alts) THEN 1 ELSE Len(alts[i + 1]) * CombinationsAfter(alts, i + 1)

\* itertools.product(*alts): one alternative per position, the rightmost
\* position varying fastest; combination n (from 0) picks at position i the
\* alternative (n div CombinationsAfter(i)) mod len(alts[i])
Product(alts) ==
    [n \in 1..CombinationsAfter(alts, 0) |->
        [i \in 1..Len(alts) |->
            alts[i][(((n - 1) \div CombinationsAfter(alts, i)) % Len(alts[i])) + 1]]]

\* the strings the generator yields, in the order it yields them
generate_possible_plates(raw_plate) == Product(alternatives_per_char(raw_plate))

Min3(a, b, c) == Min(a, Min(b, c))

\* the inner loop of calculate_edit_distance: current_row for the character c1
RECURSIVE CurrentRow(_, _, _, _)
CurrentRow(current_row, previous_row, c1, s2) ==
    IF Len(current_row) = Len(s2) + 1 THEN current_row
    ELSE LET j == Len(current_row)
             insertions == previous_row[j + 1] + 1
             deletions == current_row[j] + 1
             substitutions == previous_row[j]
                                + (IF CharUpper(c1) # CharUpper(s2[j]) THEN 1 ELSE 0)
         IN  CurrentRow(Append(current_row, Min3(insertions, deletions, substitutions)),
                        previous_row, c1, s2)

\* the outer loop: the last row after the characters i.. of s1
RECURSIVE LastRow(_, _, _, _)
LastRow(previous_row, i, s1, s2) ==
    IF i > Len(s1) THEN previous_row
    ELSE LastRow(CurrentRow(<<i>>, previous_row, s1[i], s2), i + 1, s1, s2)

RECURSIVE calculate_edit_distance(_, _)
calculate_edit_distance(s1, s2) ==
    IF Len(s1) < Len(s2) THEN calculate_edit_distance(s2, s1)
    ELSE IF Len(s2) = 0 THEN Len(s1)
    ELSE LET row == LastRow([j \in 1..(Len(s2) + 1) |-> j - 1], 1, s1, s2)
         IN  row[Len(row)]

\* valid_plates of try_correct_plate_smart
valid_plates(raw_plate) == SelectSeq(generate_possible_plates(raw_plate), check_plate_format)

\* a max(): the best one is kept unless a later key is larger
KeepsBest_Farthest(best_key, key) == best_key >= key

\* a min() that lets a later element with an equal key replace the best one
KeepsBest_OnTieLast(best_key, key) == best_key < key

\* min(): a later element replaces the best one only if its key is smaller
KeepsBest(best_key, key) == best_key <= key

\* min(plates, key = distance to target): the first element with the least key
RECURSIVE MinByDistance(_, _, _, _)
MinByDistance(plates, target, best, best_key) ==
    IF plates = <<>> THEN best
    ELSE LET key == calculate_edit_distance(target, Head(plates))
         IN  IF KeepsBest(best_key, key)
             THEN MinByDistance(Tail(plates), target, best, best_key)
             ELSE MinByDistance(Tail(plates), target, Head(plates), key)

\* a fallback that returns the upper-cased string
Fallback_Upper(raw_plate) == StrUpper(raw_plate)

\* what try_correct_plate_smart returns when valid_plates is empty
Fallback(raw_plate) == raw_plate

try_correct_plate_smart(raw_plate) ==
    LET valid == valid_plates(raw_plate)
    IN  IF valid = <<>> THEN Fallback(raw_plate)
        ELSE MinByDistance(Tail(valid), StrUpper(raw_plate), Head(valid),
                           calculate_edit_distance(StrUpper(raw_plate), Head(valid)))

\* a split test that forgets the digits after the letters
LettersThenDigits_LettersOnly(rest, n) == IsAlpha(Prefix(rest, n))

\* rest[:n].isalpha() and rest[n:].isdigit()
LettersThenDigits(rest, n) == IsAlpha(Prefix(rest, n)) /\ IsDigit(Suffix(rest, n))

license_complies_format_flexible(text0) ==
    LET text == StripSpaces(text0)
        rest == Suffix(text, 2)
        l == Len(rest)
    IN  IF text = <<>> \/ ~IsDigit(Prefix(text, 2)) THEN FALSE
        ELSE /\ l >= 5
             /\ l <= 7
             /\ \/ /\ l = 5
                   /\ \/ LettersThenDigits(rest, 1)
                      \/ LettersThenDigits(rest, 2)
                      \/ LettersThenDigits(rest, 3)
                \/ /\ l = 6
                   /\ \/ LettersThenDigits(rest, 2)
                      \/ LettersThenDigits(rest, 3)
                \/ /\ l = 7
                   /\ LettersThenDigits(rest, 3)

format_license_paddle(text0) ==
    LET text == StripSpaces(StrUpper(text0))
    IN  [i \in 1..Len(text) |->
            IF i - 1 < 2 /\ text[i] \in DOMAIN dict_char_to_int
            THEN dict_char_to_int[text[i]]
            ELSE text[i]]

\* ''.join(texts)
RECURSIVE Join(_)
Join(texts) == IF texts = <<>> THEN <<>> ELSE Head(texts) \o Join(Tail(texts))

RECURSIVE Sum(_)
Sum(scores) == IF scores = <<>> THEN 0 ELSE Head(scores) + Sum(Tail(scores))

\* sum(scores) / len(scores) if scores else 0.0, kept exact as the fraction
\* <<numerator, denominator>>
avg_score(scores) ==
    IF scores = <<>> THEN <<0, 1>> ELSE <<Sum(scores), Len(scores)>>

\* read_license_plate from the OCR call on: lines is result[0], each line a
\* [text, score]
read_license_plate(lines) ==
    IF lines = <<>> THEN <<None, None>>
    ELSE LET texts == [i \in 1..Len(lines) |-> StripSpaces(StrUpper(lines[i].text))]
             scores == [i \in 1..Len(lines) |-> lines[i].score]
             full_text_raw == Join(texts)
             full_text_paddle_formatted == format_license_paddle(full_text_raw)
             corrected_text == try_correct_plate_smart(full_text_paddle_formatted)
         IN  IF license_complies_format_flexible(corrected_text)
             THEN <<corrected_text, avg_score(scores)>>
             ELSE <<None, None>>

----------------------------------------------------------------------------
(* Inputs of the OCR correction: what the OCR engine returns for one crop. *)

MaxLines == 3

\* the text lines the OCR engine may return, with the confidence (percent)
\* it gives each
OcrLines ==
    { [text |-> <<"3", "4">>, score |-> 90],
      [text |-> <<"O", "7">>, score |-> 80],
      [text |-> <<"A", "B", "C">>, score |-> 90],
      [text |-> <<"a", "l">>, score |-> 50],
      [text |-> <<"1", "2">>, score |-> 70],
      [text |-> <<"0">>, score |-> 60],
      [text |-> <<" ">>, score |-> 40] }

OcrResults == UNION {[1..n -> OcrLines] : n \in 0..MaxLines}

\* the raw text of an OCR result, as the engine spelled it
RawText(lines) == Join([i \in 1..Len(lines) |-> lines[i].text])

InitCorrect ==
    /\ RunIdle
    /\ fn = "none"
    /\ arg \in OcrResults
    /\ ret = None

GeneratePossiblePlates ==
    /\ fn = "none"
    /\ fn' = "generate_possible_plates"
    /\ ret' = generate_possible_plates(RawText(arg))
    /\ UNCHANGED <<arg, runVars>>

TryCorrectPlateSmart ==
    /\ fn = "none"
    /\ fn' = "try_correct_plate_smart"
    /\ ret' = try_correct_plate_smart(RawText(arg))
    /\ UNCHANGED <<arg, runVars>>

ReadLicensePlate ==
    /\ fn = "none"
    /\ fn' = "read_license_plate"
    /\ ret' = read_license_plate(arg)
    /\ UNCHANGED <<arg, runVars>>

NextCorrect == GeneratePossiblePlates \/ TryCorrectPlateSmart \/ ReadLicensePlate

SpecCorrect == InitCorrect /\ [][NextCorrect]_vars

----------------------------------------------------------------------------
(* VehicleTracker                                                          *)

\* a containment test that lets the left edges coincide
Inside_LeftEdgeAllowed(license_plate, vehicle) ==
    /\ license_plate[1] >= vehicle[1]
    /\ license_plate[2] > vehicle[2]
    /\ license_plate[3] < vehicle[3]
    /\ license_plate[4] < vehicle[4]

\* x1 > xcar1 and y1 > ycar1 and x2 < xcar2 and y2 < ycar2
Inside(license_plate, vehicle) ==
    /\ license_plate[1] > vehicle[1]
    /\ license_plate[2] > vehicle[2]
    /\ license_plate[3] < vehicle[3]
    /\ license_plate[4] < vehicle[4]

\* license_plate is (x1, y1, x2, y2, score, class_id), a vehicle is
\* (xcar1, ycar1, xcar2, ycar2, car_id)
RECURSIVE get_car(_, _)
get_car(license_plate, vehicle_track_ids) ==
    IF vehicle_track_ids = <<>> THEN None
    ELSE IF Inside(license_plate, Head(vehicle_track_ids))
         THEN Head(vehicle_track_ids)
         ELSE get_car(license_plate, Tail(vehicle_track_ids))

----------------------------------------------------------------------------
(* Inputs of the assignment: boxes with corners on a grid of coordinates,  *)
(* in half pixels.                                                         *)

MaxCoord == 4
MaxTracks == 2

Coords == 0..MaxCoord

\* the boxes a detector reports: x1 < x2 and y1 < y2
Boxes ==
    {<<x1, y1, x2, y2>> : x1 \in Coords, y1 \in Coords, x2 \in Coords, y2 \in Coords}
        \ {b \in Coords \X Coords \X Coords \X Coords : b[1] >= b[3] \/ b[2] >= b[4]}

\* the vehicle boxes of the inputs: the square ones
CarBoxes == {b \in Boxes : b[1] = b[2] /\ b[3] = b[4]}

\* the orders in which a tracker may number n tracks
TrackIds(n) == {ids \in [1..n -> 1..n] : \A i, j \in 1..n : ids[i] = ids[j] => i = j}

\* the track lists of at most MaxTracks vehicles, each with its own car_id
TrackLists ==
    UNION {{[i \in 1..n |-> <<bs[i][1], bs[i][2], bs[i][3], bs[i][4], ids[i]>>] :
                bs \in [1..n -> CarBoxes], ids \in TrackIds(n)} : n \in 0..MaxTracks}

PlateScore == 90
PlateClass == 0

\* a license plate detection of the box b
Plate(b) == <<b[1], b[2], b[3], b[4], PlateScore, PlateClass>>

InitAssign ==
    /\ RunIdle
    /\ fn = "none"
    /\ arg \in [license_plate : {Plate(b) : b \in Boxes}, vehicle_track_ids : TrackLists]
    /\ ret = None

GetCar ==
    /\ fn = "none"
    /\ fn' = "get_car"
    /\ ret' = get_car(arg.license_plate, arg.vehicle_track_ids)
    /\ UNCHANGED <<arg, runVars>>

NextAssign == GetCar

SpecAssign == InitAssign /\ [][NextAssign]_vars

----------------------------------------------------------------------------
(* Claims about the assignment, under SpecAssign.                          *)

\* the box of track strictly contains the box of plate
StrictlyContains(track, plate) ==
    plate[1] > track[1] /\ plate[2] > track[2] /\ plate[3] < track[3] /\ plate[4] < track[4]

\* the boxes of track and plate share an edge coordinate
SharesEdge(track, plate) ==
    plate[1] = track[1] \/ plate[2] = track[2] \/ plate[3] = track[3] \/ plate[4] = track[4]

\* C5: get_car returns the first track of the list whose box strictly
\* contains the plate box, never a track whose box shares an edge coordinate
\* with the plate box, and None when no track strictly contains it.
C5_FirstStrictlyContaining ==
    fn = "get_car" =>
        LET tracks == arg.vehicle_track_ids
            plate == arg.license_plate
            containing == {i \in 1..Len(tracks) : StrictlyContains(tracks[i], plate)}
        IN  /\ containing = {} => ret = None
            /\ containing # {} =>
                  \E i \in containing : /\ ret = tracks[i]
                                         /\ \A j \in containing : i <= j
            /\ \A i \in 1..Len(tracks) : SharesEdge(tracks[i], plate) => ret # tracks[i]

\* C5 witness: two tracks strictly contain the plate and the first is
\* returned, while the plate touches no edge of the second
C5_Witness ==
    /\ fn = "get_car"
    /\ Len(arg.vehicle_track_ids) = 2
    /\ StrictlyContains(arg.vehicle_track_ids[1], arg.license_plate)
    /\ StrictlyContains(arg.vehicle_track_ids[2], arg.license_plate)
    /\ arg.vehicle_track_ids[1] # arg.vehicle_track_ids[2]
    /\ ret = arg.vehicle_track_ids[1]

----------------------------------------------------------------------------
(* Visualizer._select_best_plate                                           *)

\* str.strip() for the space character
RECURSIVE LStrip(_)
LStrip(s) == IF s # <<>> /\ Head(s) = " " THEN LStrip(Tail(s)) ELSE s

RECURSIVE RStrip(_)
RStrip(s) ==
    IF s # <<>> /\ s[Len(s)] = " " THEN RStrip(SubSeq(s, 1, Len(s) - 1)) ELSE s

Strip(s) == RStrip(LStrip(s))

\* a filter that tests for the empty string without stripping
IsValidPlate_NoStrip(plate) ==
    plate.license_number # <<"0">> /\ plate.license_number # <<>>

\* plate['license_number'] != '0' and plate['license_number'].strip()
IsValidPlate(plate) ==
    plate.license_number # <<"0">> /\ Strip(plate.license_number) # <<>>

\* sorted() keeps the order of equal keys, also with reverse=True: p goes
\* behind every plate whose score is at least its own
RECURSIVE InsertByScore(_, _)
InsertByScore(sorted, p) ==
    IF sorted = <<>> THEN <<p>>
    ELSE IF Head(sorted).license_number_score >= p.license_number_score
         THEN <<Head(sorted)>> \o InsertByScore(Tail(sorted), p)
         ELSE <<p>> \o sorted

\* sorted(plates, key = license_number_score, reverse = True)
RECURSIVE SortedByScore(_)
SortedByScore(plates) ==
    IF plates = <<>> THEN <<>>
    ELSE InsertByScore(SortedByScore(SubSeq(plates, 1, Len(plates) - 1)),
                       plates[Len(plates)])

\* a vote on the stripped text
VotedText_Stripped(plate) == Strip(plate.license_number)

\* plate['license_number'] of the list the votes are counted on
VotedText(plate) == plate.license_number

\* Counter(numbers): the distinct numbers in the order of their first
\* occurrence, each with its count
RECURSIVE Counter(_, _)
Counter(counts, numbers) ==
    IF numbers = <<>> THEN counts
    ELSE LET n == Head(numbers)
             seen == {i \in 1..Len(counts) : counts[i][1] = n}
         IN  IF seen = {}
             THEN Counter(Append(counts, <<n, 1>>), Tail(numbers))
             ELSE Counter([i \in 1..Len(counts) |->
                              IF i \in seen THEN <<n, counts[i][2] + 1>> ELSE counts[i]],
                          Tail(numbers))

\* a max() that lets a later item with an equal count replace the largest
Larger_OnTieLast(count, best_count) == count >= best_count

\* max(): a later item replaces the largest one only if its count is larger
Larger(count, best_count) == count > best_count

\* most_common(1)[0]: max(items, key = count), the first of the largest
RECURSIVE MostCommon(_, _)
MostCommon(items, best) ==
    IF items = <<>> THEN best
    ELSE IF Larger(Head(items)[2], best[2])
         THEN MostCommon(Tail(items), Head(items))
         ELSE MostCommon(Tail(items), best)

\* next((plate for plate in top_plates if plate['license_number'] == number),
\* None): <<plate>> for the plate found, <<>> for None
RECURSIVE FirstWithNumber(_, _)
FirstWithNumber(plates, number) ==
    IF plates = <<>> THEN <<>>
    ELSE IF Head(plates).license_number = number THEN <<Head(plates)>>
    ELSE FirstWithNumber(Tail(plates), number)

DefaultTopN == 10

\* the crop is named by where its pixels come from: the frame frame_nmr of
\* the video and the region license_plate_bbox of it
select_best_plate(possible_plates, top_n) ==
    IF possible_plates = <<>> THEN <<None, None>>
    ELSE LET valid == SelectSeq(possible_plates, IsValidPlate)
             sorted_plates == SortedByScore(valid)
             top_plates == Prefix(sorted_plates, Min(top_n, Len(sorted_plates)))
             license_numbers == [i \in 1..Len(top_plates) |-> VotedText(top_plates[i])]
         IN  IF valid = <<>> THEN <<None, None>>
             ELSE IF license_numbers = <<>> THEN <<None, None>>
             ELSE LET items == Counter(<<>>, license_numbers)
                      most_common_license_number == MostCommon(Tail(items), Head(items))[1]
                      best_result == FirstWithNumber(top_plates, most_common_license_number)
                      license_crop ==
                          IF best_result # <<>>
                          THEN <<best_result[1].frame_nmr,
                                 best_result[1].license_plate_bbox>>
                          ELSE <<"zeros">>
                  IN  <<most_common_license_number, license_crop>>

----------------------------------------------------------------------------
(* Inputs of the selection: the readings of one vehicle, one per frame.    *)

MaxReadings == 3
MaxTopN == 2

ReadingTexts == {<<>>, <<" ">>, <<"0">>, <<"7", "A">>, <<"7", "B">>, <<" ", "7", "A">>}

ReadingScores == {50, 70, 90}

ReadingBox == <<1, 1, 2, 2>>

\* the readings of a vehicle in n frames
Readings(n) ==
    {[i \in 1..n |-> [license_number |-> ts[i], license_number_score |-> ss[i],
                       frame_nmr |-> i - 1, license_plate_bbox |-> ReadingBox]] :
        ts \in [1..n -> ReadingTexts], ss \in [1..n -> ReadingScores]}

TopNs == (1..MaxTopN) \cup {DefaultTopN}

InitSelect ==
    /\ RunIdle
    /\ fn = "none"
    /\ \E n \in 0..MaxReadings :
          arg \in [possible_plates : Readings(n), top_n : TopNs]
    /\ ret = None

SelectBestPlate ==
    /\ fn = "none"
    /\ fn' = "_select_best_plate"
    /\ ret' = select_best_plate(arg.possible_plates, arg.top_n)
    /\ UNCHANGED <<arg, runVars>>

NextSelect == SelectBestPlate

SpecSelect == InitSelect /\ [][NextSelect]_vars

----------------------------------------------------------------------------
(* Claims about the selection, under SpecSelect.                           *)

\* the text is the sentinel "0", empty or of spaces only
SentinelOrBlank(text) ==
    text = <<"0">> \/ \A i \in 1..Len(text) : text[i] = " "

\* the readings of ps that survive the filter
Surviving(ps) == {i \in 1..Len(ps) : ~SentinelOrBlank(ps[i].license_number)}

\* the place of reading i of ps in the surviving readings sorted by
\* confidence, highest first, equal confidences in their original order
Rank(ps, i) ==
    1 + Cardinality({j \in Surviving(ps) :
                        \/ ps[j].license_number_score > ps[i].license_number_score
                        \/ /\ ps[j].license_number_score = ps[i].license_number_score
                           /\ j < i})

\* the top-K readings of ps
TopK(ps, K) == {i \in Surviving(ps) : Rank(ps, i) <= K}

\* the number of top-K readings of ps with the text of reading i
Votes(ps, K, i) ==
    Cardinality({j \in TopK(ps, K) : ps[j].license_number = ps[i].license_number})

\* the place of the first top-K reading of ps with the text of reading i
FirstPlace(ps, K, i) ==
    CHOOSE r \in 1..Len(ps) :
        /\ \E j \in TopK(ps, K) :
              ps[j].license_number = ps[i].license_number /\ Rank(ps, j) = r
        /\ \A j \in TopK(ps, K) :
              ps[j].license_number = ps[i].license_number => Rank(ps, j) >= r

\* C3: a canonical text that is not None is the text of one of the readings
\* passed to _select_best_plate.
C3_TextIsAnObservation ==
    (fn = "_select_best_plate" /\ ret[1] # None) =>
        \E i \in 1..Len(arg.possible_plates) :
            arg.possible_plates[i].license_number = ret[1]

\* C3 witness: a text chosen among readings of different surviving texts,
\* one of them the chosen text with a space before it
C3_Witness ==
    /\ fn = "_select_best_plate"
    /\ ret[1] # None
    /\ \E i \in Surviving(arg.possible_plates) :
          /\ arg.possible_plates[i].license_number # ret[1]
          /\ Strip(arg.possible_plates[i].license_number) = Strip(ret[1])

\* C4: _select_best_plate returns the text with the most votes among the
\* top-K surviving readings (K = top_n, all of them if fewer survive), and of
\* the texts with the most votes the one that comes first in the
\* confidence-sorted list.
C4_PluralityOfTopK ==
    fn = "_select_best_plate" =>
        LET ps == arg.possible_plates
            K == arg.top_n
        IN  TopK(ps, K) # {} =>
                \E i \in TopK(ps, K) :
                    /\ ret[1] = ps[i].license_number
                    /\ \A j \in TopK(ps, K) :
                          /\ Votes(ps, K, j) <= Votes(ps, K, i)
                          /\ Votes(ps, K, j) = Votes(ps, K, i)
                                => FirstPlace(ps, K, i) <= FirstPlace(ps, K, j)

\* C4 witness: more readings survive than K, two texts tie on the votes of
\* the top-K, and the text that comes first in the sorted list is returned
\* although it is not the text of the first reading
C4_Witness ==
    /\ fn = "_select_best_plate"
    /\ LET ps == arg.possible_plates
           K == arg.top_n
       IN  /\ Cardinality(Surviving(ps)) > K
           /\ \E i, j \in TopK(ps, K) :
                 /\ ps[i].license_number = ret[1]
                 /\ ps[j].license_number # ret[1]
                 /\ Votes(ps, K, i) = Votes(ps, K, j)
                 /\ j < i

\* C10: _select_best_plate returns (None, None) when no reading survives the
\* filter (the text "0", empty or of spaces only), also for no readings at
\* all, and a text that is not None when a reading survives.
C10_NullIffNothingSurvives ==
    fn = "_select_best_plate" =>
        /\ Surviving(arg.possible_plates) = {} => ret = <<None, None>>
        /\ Surviving(arg.possible_plates) # {} => ret[1] # None

\* C10 witness: readings of the sentinel and of spaces only, none surviving
C10_Witness ==
    /\ fn = "_select_best_plate"
    /\ ret = <<None, None>>
    /\ \E i, j \in 1..Len(arg.possible_plates) :
          /\ arg.possible_plates[i].license_number = <<"0">>
          /\ arg.possible_plates[j].license_number = <<" ">>

----------------------------------------------------------------------------
(* Inputs of the two format predicates: every string of a digit, an upper- *)
(* and a lower-case letter and the space, up to the longest plate.         *)

MaxTextLen == 9

FormatChars == {"3", "A", "a", " "}

InitFormat ==
    /\ RunIdle
    /\ fn = "none"
    /\ \E n \in 0..MaxTextLen : arg \in [1..n -> FormatChars]
    /\ ret = None

LicenseCompliesFormatFlexible ==
    /\ fn = "none"
    /\ fn' = "license_complies_format_flexible"
    /\ ret' = license_complies_format_flexible(arg)
    /\ UNCHANGED <<arg, runVars>>

CheckPlateFormat ==
    /\ fn = "none"
    /\ fn' = "check_plate_format"
    /\ ret' = check_plate_format(arg)
    /\ UNCHANGED <<arg, runVars>>

NextFormat == LicenseCompliesFormatFlexible \/ CheckPlateFormat

SpecFormat == InitFormat /\ [][NextFormat]_vars

----------------------------------------------------------------------------
(* Claims about the format predicates, under SpecFormat.                   *)

\* the numbers of leading letters the flexible grammar allows a remainder of
\* length l
LeadingLetters(l) == IF l = 5 THEN {1, 2, 3} ELSE IF l = 6 THEN {2, 3} ELSE {3}

\* the first 2 characters of s are digits and the remainder, of length 5 to 7,
\* is an allowed number of letters followed only by digits
FlexibleShape(s) ==
    /\ Len(s) >= 2
    /\ s[1] \in DigitChars
    /\ s[2] \in DigitChars
    /\ Len(s) - 2 \in 5..7
    /\ \E n \in LeadingLetters(Len(s) - 2) :
          /\ \A i \in 3..(2 + n) : s[i] \in UpperChars \cup LowerChars
          /\ \A i \in (3 + n)..Len(s) : s[i] \in DigitChars

\* C9 as stated: the flexible predicate returns a boolean, true exactly when
\* the string as given has the flexible shape.
C9_FlexibleExactlyShape ==
    fn = "license_complies_format_flexible" =>
        ret \in BOOLEAN /\ ret = FlexibleShape(arg)

\* C9 amended: the flexible predicate returns a boolean, true exactly when
\* the string with its spaces removed has the flexible shape.
C9_FlexibleExactlyShapeWithoutSpaces ==
    fn = "license_complies_format_flexible" =>
        ret \in BOOLEAN /\ ret = FlexibleShape(StripSpaces(arg))

\* C9 witness: a string accepted although a space stands among its first
\* characters, and a string of the longest shape accepted
C9_Witness ==
    /\ fn = "license_complies_format_flexible"
    /\ ret = TRUE
    /\ \/ arg[2] = " "
       \/ Len(arg) = 9

----------------------------------------------------------------------------
(* Claims about the OCR correction, under SpecCorrect.                     *)

\* the matrix of the Levenshtein recurrence of a and b, row by row in one
\* sequence: cell (i, j) is the distance of a[1..i] and b[1..j], case-sensitive
RECURSIVE LevenshteinCells(_, _, _)
LevenshteinCells(cells, a, b) ==
    LET w == Len(b) + 1
        i == Len(cells) \div w
        j == Len(cells) % w
        at(r, c) == cells[r * w + c + 1]
        cell == IF i = 0 THEN j
                ELSE IF j = 0 THEN i
                ELSE Min3(at(i - 1, j) + 1, at(i, j - 1) + 1,
                          at(i - 1, j - 1) + (IF a[i] = b[j] THEN 0 ELSE 1))
    IN  IF Len(cells) = (Len(a) + 1) * w THEN cells
        ELSE LevenshteinCells(Append(cells, cell), a, b)

Levenshtein(a, b) ==
    LET cells == LevenshteinCells(<<>>, a, b) IN cells[Len(cells)]

\* C6: when some generated candidate is strict-valid, try_correct_plate_smart
\* returns a strict-valid candidate whose Levenshtein distance to the
\* upper-cased raw string is the least among the strict-valid candidates, and
\* no strict-valid candidate enumerated before it is as close.
C6_MinimalDistanceFirst ==
    fn = "try_correct_plate_smart" =>
        LET raw == RawText(arg)
            cands == generate_possible_plates(raw)
            valid == {i \in 1..Len(cands) : check_plate_format(cands[i])}
            dist == [i \in valid |-> Levenshtein(StrUpper(raw), cands[i])]
        IN  valid # {} =>
                \E i \in valid :
                    /\ ret = cands[i]
                    /\ \A j \in valid : dist[j] >= dist[i]
                    /\ \A j \in valid : j < i => dist[j] > dist[i]

\* C6 witness: a correction chosen among several strict-valid candidates, two
\* of them tied at the least distance
C6_Witness ==
    /\ fn = "try_correct_plate_smart"
    /\ ret # RawText(arg)
    /\ LET cands == generate_possible_plates(RawText(arg))
           target == StrUpper(RawText(arg))
       IN  \E i, j \in 1..Len(cands) :
               /\ i < j
               /\ ret = cands[i]
               /\ check_plate_format(cands[j])
               /\ Levenshtein(target, cands[j]) = Levenshtein(target, ret)

\* no generated candidate of raw satisfies the strict predicate
NoStrictCandidate(raw) ==
    LET cands == generate_possible_plates(raw)
    IN  \A i \in 1..Len(cands) : ~check_plate_format(cands[i])

\* C7: when no generated candidate is strict-valid, try_correct_plate_smart
\* returns the raw string exactly as given.
C7_IdentityFallback ==
    (fn = "try_correct_plate_smart" /\ NoStrictCandidate(RawText(arg)))
        => ret = RawText(arg)

\* C7 witness: the fallback taken for a raw string with a lower-case letter,
\* which upper-casing would change
C7_Witness ==
    /\ fn = "try_correct_plate_smart"
    /\ NoStrictCandidate(RawText(arg))
    /\ ret = RawText(arg)
    /\ StrUpper(ret) # ret

\* the set of alternatives the table gives a character, after upper-casing
AlternativeSet(char) ==
    IF CharUpper(char) \in DOMAIN ocr_alternatives
    THEN {ocr_alternatives[CharUpper(char)][k] :
            k \in 1..Len(ocr_alternatives[CharUpper(char)])}
    ELSE {CharUpper(char)}

\* k1 * ... * kn
RECURSIVE ProductOfSizes(_)
ProductOfSizes(raw) ==
    IF raw = <<>> THEN 1
    ELSE Cardinality(AlternativeSet(Head(raw))) * ProductOfSizes(Tail(raw))

\* C8: generate_possible_plates yields exactly k1 * ... * kn strings, ki the
\* size of the alternative set of the i-th character, all pairwise distinct
\* and all as long as the raw string.
C8_CandidateCount ==
    fn = "generate_possible_plates" =>
        /\ Len(ret) = ProductOfSizes(RawText(arg))
        /\ Cardinality({ret[n] : n \in 1..Len(ret)}) = Len(ret)
        /\ \A n \in 1..Len(ret) : Len(ret[n]) = Len(RawText(arg))

\* C8 witness: a raw string with a lower-case letter, a character outside the
\* table and ambiguous characters, expanded to more than one candidate
C8_Witness ==
    /\ fn = "generate_possible_plates"
    /\ Len(ret) > 1
    /\ \E i \in 1..Len(RawText(arg)) : RawText(arg)[i] \in LowerChars
    /\ \E i \in 1..Len(RawText(arg)) : RawText(arg)[i] \notin DOMAIN ocr_alternatives

----------------------------------------------------------------------------
(* LicensePlateRecognition: run's loop over the frames and process_frame,  *)
(* one step per license plate detection of the frame.                      *)

MaxFrames == 3
MaxPlates == 2
SubPixel == 2

\* int(v) of a coordinate v >= 0 given in 1/SubPixel pixels
IntPart(v) == v \div SubPixel

\* frame[int(y1):int(y2), int(x1):int(x2), :] holds no pixel
CropIsEmpty(license_plate) ==
    \/ IntPart(license_plate[4]) <= IntPart(license_plate[2])
    \/ IntPart(license_plate[3]) <= IntPart(license_plate[1])

\* what the tracker may return for a frame: two vehicles, one box within
\* the other, in either order
FrameTracks ==
    { <<>>,
      << <<0, 0, 4, 4, 1>> >>,
      << <<0, 0, 4, 4, 1>>, <<0, 0, 3, 3, 2>> >>,
      << <<0, 0, 3, 3, 2>>, <<0, 0, 4, 4, 1>> >> }

\* the plate boxes the detector may report: within both vehicles, within the
\* larger only, on the left edge of both, and one less than a pixel high
FramePlateBoxes == {<<1, 1, 2, 2>>, <<1, 1, 3, 3>>, <<0, 1, 2, 2>>, <<2, 2, 3, 3>>}

\* license_plates.boxes.data.tolist() of a frame
FramePlates == UNION {[1..n -> {Plate(b) : b \in FramePlateBoxes}] : n \in 0..MaxPlates}

\* the OCR line of the text t
Line(t) == CHOOSE l \in OcrLines : l.text = t

\* what the OCR engine may return for a crop: nothing, two plates, one of
\* them with a letter for a digit, and a text that is no plate
CropOcrResults ==
    { <<>>,
      <<Line(<<"3", "4">>), Line(<<"A", "B", "C">>), Line(<<"1", "2">>)>>,
      <<Line(<<"O", "7">>), Line(<<"A", "B", "C">>), Line(<<"1", "2">>)>>,
      <<Line(<<"3", "4">>), Line(<<"1", "2">>)>> }

\* read_license_plate for each of them
ReadResult == [lines \in CropOcrResults |-> read_license_plate(lines)]

\* d[key] = value of a dict d
DictSet(d, key, value) ==
    [k \in DOMAIN d \cup {key} |-> IF k = key THEN value ELSE d[k]]

Init ==
    /\ fn = "none"
    /\ arg = None
    /\ ret = None
    /\ pc = "loop"
    /\ frame_nmr = -1
    /\ results = <<>>
    /\ track_ids = <<>>
    /\ license_plates = <<>>
    /\ last = "none"
    /\ test_csv = {}
    /\ test_interpolated_csv = {}
    /\ car_ids = <<>>
    /\ visualizer_license_plate = <<>>
    /\ selected = <<>>

\* cap.read() returns a frame: process_frame up to its loop over the plates
ReadFrame ==
    /\ pc = "loop"
    /\ license_plates = <<>>
    /\ frame_nmr + 1 < MaxFrames
    /\ frame_nmr' = frame_nmr + 1
    /\ results' = DictSet(results, frame_nmr + 1, <<>>)
    /\ track_ids' \in FrameTracks
    /\ license_plates' \in FramePlates
    /\ last' = "none"
    /\ UNCHANGED <<pc, postVars, callVars>>

\* cap.read() returns no frame: the loop ends
EndOfVideo ==
    /\ pc = "loop"
    /\ license_plates = <<>>
    /\ frame_nmr' = frame_nmr + 1
    /\ pc' = "write"
    /\ UNCHANGED <<results, track_ids, license_plates, last, postVars, callVars>>

\* get_car finds no vehicle for the next plate
PlateWithoutCar ==
    /\ pc = "loop"
    /\ license_plates # <<>>
    /\ get_car(Head(license_plates), track_ids) = None
    /\ license_plates' = Tail(license_plates)
    /\ last' = "no_car"
    /\ UNCHANGED <<pc, frame_nmr, results, track_ids, postVars, callVars>>

\* the crop of the next plate is empty: read_license_plate divides by its
\* height 0, or cv2.resize refuses its width 0, and run ends by the exception
PlateCropEmpty ==
    /\ pc = "loop"
    /\ license_plates # <<>>
    /\ get_car(Head(license_plates), track_ids) # None
    /\ CropIsEmpty(Head(license_plates))
    /\ pc' = "raised"
    /\ last' = "raised"
    /\ UNCHANGED <<frame_nmr, results, track_ids, license_plates, postVars, callVars>>

\* the next plate is assigned to a vehicle and read
PlateRead ==
    /\ pc = "loop"
    /\ license_plates # <<>>
    /\ LET license_plate == Head(license_plates)
           car_info == get_car(license_plate, track_ids)
       IN  /\ car_info # None
           /\ ~CropIsEmpty(license_plate)
           /\ \E lines \in CropOcrResults :
                 LET license_plate_text == ReadResult[lines][1]
                     license_plate_score == ReadResult[lines][2]
                 IN  IF license_plate_text # None
                     THEN /\ results' =
                               DictSet(results, frame_nmr,
                                   DictSet(results[frame_nmr], car_info[5],
                                       [car |-> [bbox |-> SubSeq(car_info, 1, 4)],
                                        license_plate |->
                                            [bbox |-> SubSeq(license_plate, 1, 4),
                                             text |-> license_plate_text,
                                             bbox_score |-> license_plate[5],
                                             text_score |-> license_plate_score]]))
                          /\ last' = "stored"
                     ELSE /\ last' = "no_text"
                          /\ UNCHANGED results
    /\ license_plates' = Tail(license_plates)
    /\ UNCHANGED <<pc, frame_nmr, track_ids, postVars, callVars>>

\* the pairs <<frame_nmr, car_id>> of the two loops of write_results
RecordKeys(res) == UNION {{<<f, c>> : c \in DOMAIN res[f]} : f \in DOMAIN res}

\* '[{} {} {} {}]'.format(bbox[0], bbox[1], bbox[2], bbox[3])
FormatBbox(bbox) == <<"[", bbox[1], " ", bbox[2], " ", bbox[3], " ", bbox[4], "]">>

\* the numbers of a formatted bbox
ParseBbox(text) == <<text[2], text[4], text[6], text[8]>>

\* the float sum(scores) / len(scores), in units of 1/ScoreResolution
ScoreResolution == 1000

FloatScore(score) == (score[1] * ScoreResolution) \div score[2]

\* the rows write_results writes below the header. A car has one row per
\* frame and the frames are written in ascending order, so the rows of a
\* car are in the order of their frame_nmr; the file is read by car only
write_results(res) ==
    { [frame_nmr |-> fc[1],
       car_id |-> fc[2],
       car_bbox |-> FormatBbox(res[fc[1]][fc[2]].car.bbox),
       license_plate_bbox |-> FormatBbox(res[fc[1]][fc[2]].license_plate.bbox),
       license_plate_bbox_score |-> res[fc[1]][fc[2]].license_plate.bbox_score,
       license_number |-> res[fc[1]][fc[2]].license_plate.text,
       license_number_score |-> FloatScore(res[fc[1]][fc[2]].license_plate.text_score)] :
        fc \in {k \in RecordKeys(res) :
                  /\ "car" \in DOMAIN res[k[1]][k[2]]
                  /\ "license_plate" \in DOMAIN res[k[1]][k[2]]
                  /\ "text" \in DOMAIN res[k[1]][k[2]].license_plate} }

\* the frames in which the car has a row
FramesOf(rows, car_id) == {r.frame_nmr : r \in {q \in rows : q.car_id = car_id}}

RowAt(rows, car_id, f) == CHOOSE r \in rows : r.car_id = car_id /\ r.frame_nmr = f

SetMin(S) == CHOOSE x \in S : \A y \in S : x <= y

SetMax(S) == CHOOSE x \in S : \A y \in S : x >= y

\* the numbers of S in ascending order
SortedIds(S) ==
    [i \in 1..Cardinality(S) |-> CHOOSE x \in S : Cardinality({y \in S : y < x}) = i - 1]

\* the value at frame f on the line from a at frame fa to b at frame fb
Interpolate(a, b, fa, fb, f) == a + ((b - a) * (f - fa)) \div (fb - fa)

\* the row that fills the gap of the car at frame f: boxes between those of
\* the rows around it, and the sentinel '0' for the text and the scores
GapRow(rows, car_id, f) ==
    LET fa == SetMax({g \in FramesOf(rows, car_id) : g < f})
        fb == SetMin({g \in FramesOf(rows, car_id) : g > f})
        ra == RowAt(rows, car_id, fa)
        rb == RowAt(rows, car_id, fb)
        Between(x, y) ==
            FormatBbox([i \in 1..4 |->
                Interpolate(ParseBbox(x)[i], ParseBbox(y)[i], fa, fb, f)])
    IN  [frame_nmr |-> f,
         car_id |-> car_id,
         car_bbox |-> Between(ra.car_bbox, rb.car_bbox),
         license_plate_bbox |-> Between(ra.license_plate_bbox, rb.license_plate_bbox),
         license_plate_bbox_score |-> 0,
         license_number |-> <<"0">>,
         license_number_score |-> 0]

\* DataInterpolator.process_file: the rows of the input and, for each car, a
\* row for every frame between its first and its last that has none
process_file(rows) ==
    rows \cup
    UNION {{GapRow(rows, c, f) :
              f \in (SetMin(FramesOf(rows, c))..SetMax(FramesOf(rows, c)))
                        \ FramesOf(rows, c)} :
           c \in {r.car_id : r \in rows}}

\* a loop over the car_id of every row, a car once for each of its frames
UniqueCarIds_PerRow(rows) ==
    LET frames == SortedIds({r.frame_nmr : r \in rows})
    IN  Join([i \in 1..Len(frames) |->
                 SortedIds({r.car_id : r \in {q \in rows : q.frame_nmr = frames[i]}})])

\* np.unique(self.results['car_id']): the distinct car ids, ascending
UniqueCarIds(rows) == SortedIds({r.car_id : r \in rows})

\* car_results[[...]].to_dict('records'): the rows of the car in file order
PossiblePlates(rows, car_id) ==
    LET frames == SortedIds(FramesOf(rows, car_id))
    IN  [i \in 1..Len(frames) |->
            LET r == RowAt(rows, car_id, frames[i])
            IN  [license_number |-> r.license_number,
                 license_number_score |-> r.license_number_score,
                 frame_nmr |-> r.frame_nmr,
                 license_plate_bbox |-> r.license_plate_bbox]]

\* data_writer.write_results(self.results, './test.csv')
WriteResults ==
    /\ pc = "write"
    /\ pc' = "interpolate"
    /\ test_csv' = write_results(results)
    /\ UNCHANGED <<frame_nmr, results, track_ids, license_plates, last, callVars>>
    /\ UNCHANGED <<test_interpolated_csv, car_ids, visualizer_license_plate, selected>>

\* data_interpolator.process_file('./test.csv', './test_interpolated.csv')
ProcessFile ==
    /\ pc = "interpolate"
    /\ pc' = "visualize"
    /\ test_interpolated_csv' = process_file(test_csv)
    /\ UNCHANGED <<frame_nmr, results, track_ids, license_plates, last, callVars>>
    /\ UNCHANGED <<test_csv, car_ids, visualizer_license_plate, selected>>

\* Visualizer(video_path) up to the loop of _process_license_plates: the
\* file is read and the loop starts over its distinct car ids
LoadResults ==
    /\ pc = "visualize"
    /\ pc' = "select"
    /\ visualizer_license_plate' = <<>>
    /\ car_ids' = UniqueCarIds(test_interpolated_csv)
    /\ UNCHANGED <<frame_nmr, results, track_ids, license_plates, last, callVars>>
    /\ UNCHANGED <<test_csv, test_interpolated_csv, selected>>

\* one pass of the loop of _process_license_plates
ProcessLicensePlates ==
    /\ pc = "select"
    /\ car_ids # <<>>
    /\ LET car_id == Head(car_ids)
           possible_plates == PossiblePlates(test_interpolated_csv, car_id)
           best == select_best_plate(possible_plates, DefaultTopN)
       IN  /\ selected' = Append(selected, car_id)
           /\ visualizer_license_plate' =
                  DictSet(visualizer_license_plate, car_id,
                          [license_crop |-> best[2], license_plate_number |-> best[1]])
    /\ car_ids' = Tail(car_ids)
    /\ UNCHANGED <<pc, frame_nmr, results, track_ids, license_plates, last, callVars>>
    /\ UNCHANGED <<test_csv, test_interpolated_csv>>

\* the loop is over: visualizer.run() renders the video and run returns
VisualizerRun ==
    /\ pc = "select"
    /\ car_ids = <<>>
    /\ pc' = "done"
    /\ UNCHANGED <<frame_nmr, results, track_ids, license_plates, last, postVars, callVars>>

Next ==
    \/ ReadFrame
    \/ EndOfVideo
    \/ PlateWithoutCar
    \/ PlateCropEmpty
    \/ PlateRead
    \/ WriteResults
    \/ ProcessFile
    \/ LoadResults
    \/ ProcessLicensePlates
    \/ VisualizerRun
Spec == Init /\ [][Next]_vars

----------------------------------------------------------------------------
(* Claims about the results map, under Spec.                               *)

\* the observations stored so far: the pairs <<frame, car_id>>
Stored == UNION {{<<f, c>> : c \in DOMAIN results[f]} : f \in DOMAIN results}

\* C1: every observation stored in the results map has its plate box
\* strictly within the box stored for its vehicle, which in the current frame
\* is the box of the track with that car_id, and has a text that passes
\* license_complies_format_flexible.
C1_StoredObservationsValid ==
    \A fc \in Stored :
        LET record == results[fc[1]][fc[2]]
        IN  /\ StrictlyContains(record.car.bbox, record.license_plate.bbox)
            /\ fc[1] = frame_nmr =>
                  \E i \in 1..Len(track_ids) : track_ids[i] = record.car.bbox \o <<fc[2]>>
            /\ license_complies_format_flexible(record.license_plate.text)

\* C1 witness: after a plate on the edge of the vehicle boxes was dropped, an
\* observation is stored in a second frame
C1_Witness ==
    /\ last = "stored"
    /\ \E fc, fd \in Stored : fc[1] # fd[1]

\* C2 as stated: a stored observation is never replaced or altered by a later
\* step, and every plate assigned and read successfully adds a record of its
\* own to the results.
C2_NeverReplacedOwnRecord ==
    [][/\ \A fc \in Stored :
            /\ fc[1] \in DOMAIN results'
            /\ fc[2] \in DOMAIN results'[fc[1]]
            /\ results'[fc[1]][fc[2]] = results[fc[1]][fc[2]]
       /\ (last' = "stored" /\ license_plates' # license_plates)
            => Cardinality(Stored') = Cardinality(Stored) + 1]_vars

\* C11 as stated: no plate detection makes process_frame raise: each one
\* handled so far was stored as an observation or dropped (no containing
\* vehicle, no text returned), an empty crop included, and the run goes on to
\* the next detection, the next frame and the end of the video.
C11_NoFailureModeRaises ==
    /\ pc # "raised"
    /\ last \in {"none", "stored", "no_car", "no_text"}

\* the car ids that have a record in the results
StoredCarIds == {fc[2] : fc \in Stored}

\* how many times _select_best_plate was called for the car id
TimesSelected(car_id) == Cardinality({i \in 1..Len(selected) : selected[i] = car_id})

\* C13: _select_best_plate is called for a vehicle id only after the frame
\* loop has ended with every frame read processed, no detection pending and
\* the results written to the file; it is called for ids of the results
\* only, never twice for one id, and once for each id when run has returned.
C13_FullBarrierOncePerVehicle ==
    /\ selected # <<>> =>
          /\ pc \in {"select", "done"}
          /\ license_plates = <<>>
          /\ DOMAIN results = 0..(frame_nmr - 1)
          /\ test_csv = write_results(results)
    /\ \A i \in 1..Len(selected) :
          selected[i] \in StoredCarIds /\ TimesSelected(selected[i]) = 1
    /\ pc = "done" => \A c \in StoredCarIds : TimesSelected(c) = 1

\* C13 witness: run has returned from a video of three frames with two
\* vehicles in its results, one of them with a record in the first and the
\* last frame and a filled gap between them, and the selection was executed
\* for both
C13_Witness ==
    /\ pc = "done"
    /\ Cardinality(StoredCarIds) = 2
    /\ Len(selected) = 2
    /\ \E c \in StoredCarIds :
          /\ Cardinality(FramesOf(test_csv, c)) = 2
          /\ Cardinality(FramesOf(test_interpolated_csv, c)) = 3

----------------------------------------------------------------------------
(* Inputs of the correction of one OCR string of digits and upper-case     *)
(* letters: every string of a digit without alternatives and a letter with *)
(* a digit alternative, up to the longest plate, and the strings of the    *)
(* documented scenario.                                                    *)

MaxPlateLen == 9

PlateChars == {"7", "A"}

\* 'O7ABC123' as the OCR engine spells it, and after format_license_paddle
ScenarioTexts ==
    { <<"O", "7", "A", "B", "C", "1", "2", "3">>,
      <<"0", "7", "A", "B", "C", "1", "2", "3">> }

\* the confidence (percent) the OCR engine gives the line
OcrScore == 90

InitPlate ==
    /\ RunIdle
    /\ fn = "none"
    /\ \/ \E n \in 0..MaxPlateLen : arg \in [1..n -> PlateChars]
       \/ arg \in ScenarioTexts
    /\ ret = None

\* try_correct_plate_smart(arg)
CorrectPlate ==
    /\ fn = "none"
    /\ fn' = "try_correct_plate_smart"
    /\ ret' = try_correct_plate_smart(arg)
    /\ UNCHANGED <<arg, runVars>>

\* read_license_plate of a crop for which the OCR engine returns the one
\* line arg
ReadPlate ==
    /\ fn = "none"
    /\ fn' = "read_license_plate"
    /\ ret' = read_license_plate(<<[text |-> arg, score |-> OcrScore]>>)
    /\ UNCHANGED <<arg, runVars>>

NextPlate == CorrectPlate \/ ReadPlate

SpecPlate == InitPlate /\ [][NextPlate]_vars

----------------------------------------------------------------------------
(* Claims about strict-valid strings and emitted texts, under SpecPlate.   *)

\* C12: try_correct_plate_smart returns an upper-case string that satisfies
\* check_plate_format unchanged, and so returns its own output unchanged
\* when that output satisfies check_plate_format.
C12_StrictValidUnchanged ==
    fn = "try_correct_plate_smart" =>
        /\ (arg = StrUpper(arg) /\ check_plate_format(arg)) => ret = arg
        /\ check_plate_format(ret) => try_correct_plate_smart(ret) = ret

\* C12 witness: a strict-valid string is returned unchanged although another
\* strict-valid candidate is generated before it, and the scenario's
\* 07ABC123 is returned as 07ABC123
C12_Witness ==
    /\ fn = "try_correct_plate_smart"
    /\ check_plate_format(arg)
    /\ ret = arg
    /\ \/ Head(valid_plates(arg)) # arg
       \/ arg = <<"0", "7", "A", "B", "C", "1", "2", "3">>

\* C14: a text read_license_plate returns for a string of digits and
\* upper-case letters satisfies check_plate_format as well as
\* license_complies_format_flexible, and is a strict-valid candidate, not
\* the text the identity fallback returns.
C14_EmittedTextStrict ==
    (/\ fn = "read_license_plate"
     /\ \A i \in 1..Len(arg) : arg[i] \in DigitChars \cup UpperChars
     /\ ret[1] # None)
        => /\ check_plate_format(ret[1])
           /\ license_complies_format_flexible(ret[1])
           /\ valid_plates(format_license_paddle(arg)) # <<>>

\* C14 witness: a text is returned that the correction changed, and a text
\* is returned for the scenario's O7ABC123
C14_Witness ==
    /\ fn = "read_license_plate"
    /\ ret[1] # None
    /\ \/ ret[1] # format_license_paddle(arg)
       \/ arg = <<"O", "7", "A", "B", "C", "1", "2", "3">>

====
